---- MODULE Spec2Model ----
(***************************************************************************)
(* Model of app.py: the keyword/filter search engine of horae-archi.       *)
(*                                                                         *)
(* Text is a sequence of one-character strings, so that lower(), strip(),  *)
(* the tokenizer's regular expression and the substring test `in` are      *)
(* computed character by character as Python computes them.  A record is   *)
(* a Python dict: a function whose DOMAIN is the set of keys present.      *)
(* Record positions are 0-based as in the source; DATA[p + 1] is the       *)
(* record at position p.  A list of records is modelled as the list of     *)
(* their positions (the list holds references to the dicts of DATA).       *)
(***************************************************************************)
EXTENDS Integers, Sequences, FiniteSets, TLC

\* ------------------------------------------------------------------
\* Bounds of the model
\* ------------------------------------------------------------------
MaxRecords == 2      \* files in the data directory in Spec
MaxActive  == 2      \* filters active in one request in Spec
MaxResults == 100    \* files in the data directory in SpecPage
MaxPage    == 4      \* page numbers range over -MaxPage .. MaxPage in SpecPage

\* ------------------------------------------------------------------
\* Program constant
\* ------------------------------------------------------------------
RESULTS_PER_PAGE == 48

\* ------------------------------------------------------------------
\* Python string primitives
\* ------------------------------------------------------------------
LowerCase == <<"a","b","c","d","e","f","g","h","i","j","k","l","m",
               "n","o","p","q","r","s","t","u","v","w","x","y","z">>
UpperCase == <<"A","B","C","D","E","F","G","H","I","J","K","L","M",
               "N","O","P","Q","R","S","T","U","V","W","X","Y","Z">>
Digits == {"0","1","2","3","4","5","6","7","8","9"}
Whitespace == {" ", "\t", "\n"}

Range(s) == {s[i] : i \in DOMAIN s}

UpperChars == Range(UpperCase)

\* str.lower() on one character
LowerChar(c) ==
    IF c \in UpperChars
    THEN LowerCase[CHOOSE i \in DOMAIN UpperCase : UpperCase[i] = c]
    ELSE c

\* str.lower()
Lower(text) == [i \in DOMAIN text |-> LowerChar(text[i])]

\* str.strip(): leading and trailing whitespace removed
Strip(text) ==
    LET keep == {i \in DOMAIN text : text[i] \notin Whitespace}
    IN  IF keep = {} THEN <<>>
        ELSE LET lo == CHOOSE i \in keep : \A j \in keep : i <= j
                 hi == CHOOSE i \in keep : \A j \in keep : j <= i
             IN  SubSeq(text, lo, hi)

\* sub in text (Python substring test)
Contains(sub, text) ==
    \E i \in 1..(Len(text) - Len(sub) + 1) : SubSeq(text, i, i + Len(sub) - 1) = sub

\* sep.join(list)
RECURSIVE Join(_, _)
Join(sep, list) ==
    IF list = <<>> THEN <<>>
    ELSE IF Len(list) = 1 THEN list[1]
    ELSE list[1] \o sep \o Join(sep, Tail(list))

Space == <<" ">>

\* dict.get(key, default)
Get(rec, key, default) == IF key \in DOMAIN rec THEN rec[key] ELSE default

\* ------------------------------------------------------------------
\* TOKENIZER
\* ------------------------------------------------------------------
\* the character class [a-zA-Z0-9_]
WordChars == Range(LowerCase) \cup Range(UpperCase) \cup Digits \cup {"_"}

WordChar(c) == c \in WordChars

\* re.findall(r"[a-zA-Z0-9_]+", s): the maximal runs of word characters of s,
\* from left to right.  A run starts at a word character that has none before
\* it and ends at the last word character that follows without a gap.
FindAll(s) ==
    LET starts == {i \in DOMAIN s : WordChar(s[i]) /\ (i = 1 \/ ~WordChar(s[i - 1]))}
        EndOf(i) == CHOOSE j \in i..Len(s) :
                        /\ \A k \in i..j : WordChar(s[k])
                        /\ j = Len(s) \/ ~WordChar(s[j + 1])
        Nth(n) == CHOOSE i \in starts : Cardinality({j \in starts : j < i}) = n - 1
    IN  [n \in 1..Cardinality(starts) |-> SubSeq(s, Nth(n), EndOf(Nth(n)))]

tokenize(text) == FindAll(Lower(text))

\* ------------------------------------------------------------------
\* Texts used by the input pools (a text is a sequence of characters)
\* ------------------------------------------------------------------
tEmpty == <<>>
tBrick == <<"b","r","i","c","k">>   \* "brick"
tBrickCap == <<"B","r","i","c","k">>   \* "Brick"
tTower == <<"t","o","w","e","r">>   \* "tower"
tBrickTower == <<"b","r","i","c","k"," ","t","o","w","e","r">>   \* "brick tower"
tTowerBrick == <<"t","o","w","e","r"," ","b","r","i","c","k">>   \* "tower brick"
tUrban == <<"u","r","b","a","n">>   \* "urban"
tUrbanCap == <<"U","r","b","a","n">>   \* "Urban"
tSuburbanArea == <<"s","u","b","u","r","b","a","n"," ","a","r","e","a">>   \* "suburban area"
tUrbanDecay == <<"U","r","b","a","n"," ","d","e","c","a","y","!">>   \* "Urban decay!"
tGothic == <<"g","o","t","h","i","c">>   \* "gothic"
tGothicCap == <<"G","o","t","h","i","c">>   \* "Gothic"
tArch == <<"a","r","c","h">>   \* "arch"
tAnn == <<"A","n","n">>   \* "Ann"
tBobCap == <<"B","o","b">>   \* "Bob"
tBob == <<"b","o","b">>   \* "bob"
tAnnBob == <<"a","n","n"," ","b","o","b">>   \* "ann bob"
tTow == <<"t","o","w">>   \* "tow"
tTowerUp == <<"T","O","W","E","R">>   \* "TOWER"
tATower == <<"a"," ","t","o","w","e","r",","," ","a"," ","t","o","w","e","r">>   \* "a tower, a tower"
tBlank == <<" ","\t">>   \* " \t"
tPunct == <<"!","!","!">>   \* "!!!"
tUrbanZzz == <<"U","r","b","a","n",","," ","z","z","z">>   \* "Urban, zzz"
tJson == <<".","j","s","o","n">>   \* ".json"
tF1 == <<"f","1",".","j","s","o","n">>   \* "f1.json"
tF2 == <<"f","2",".","j","s","o","n">>   \* "f2.json"
tF3 == <<"f","3",".","j","s","o","n">>   \* "f3.json"
tF4 == <<"f","4",".","j","s","o","n">>   \* "f4.json"
tF5 == <<"f","5",".","j","s","o","n">>   \* "f5.json"
tNotes == <<"n","o","t","e","s",".","t","x","t">>   \* "notes.txt"

\* ------------------------------------------------------------------
\* Input pools
\* ------------------------------------------------------------------
\* The files a data directory may hold: name and parsed JSON content.
File1 == [name |-> tF1,
          content |-> [scene_description_enriched |-> tUrbanDecay,
                       spatial_context |-> tUrbanCap,
                       building_types |-> <<tBrickCap, tTower>>,
                       persons |-> <<tAnn, tBobCap>>]]
File2 == [name |-> tF2,
          content |-> [scene_description_enriched |-> tBrick,
                       spatial_context |-> tSuburbanArea,
                       architectural_context |-> tGothic,
                       building_types |-> <<tBrickTower>>]]
File3 == [name |-> tF3,
          content |-> [title |-> tArch]]
File4 == [name |-> tF4,
          content |-> [scene_interpretation |-> tATower,
                       spatial_context |-> tUrban,
                       architectural_context |-> tGothicCap,
                       architectural_elements |-> <<tTower, tArch>>,
                       persons |-> <<tBob>>]]
File5 == [name |-> tF5,
          content |-> [spatial_context |-> tUrbanCap]]
Notes == [name |-> tNotes,
          content |-> [title |-> tBrick]]

\* The JSON files the data directory of Spec is filled from
FilePool == {File1, File2, File3, File4}

\* Directory listings of at most n files (os.listdir order is arbitrary)
Listings(n) == UNION {[1..k -> FilePool] : k \in 0..n}

\* ------------------------------------------------------------------
\* load_dataset
\* ------------------------------------------------------------------
\* str.endswith(suffix)
EndsWith(text, suffix) ==
    /\ Len(suffix) <= Len(text)
    /\ SubSeq(text, Len(text) - Len(suffix) + 1, Len(text)) = suffix

\* str(x) for the values the fields hold: a string is returned as it is
Str(value) == value

\* The derived, lowercased search blob of one record
SearchText(record) ==
    Lower(Join(Space, <<
        Str(Get(record, "scene_description_enriched", tEmpty)),
        Str(Get(record, "scene_interpretation", tEmpty)),
        Str(Get(record, "spatial_context", tEmpty)),
        Str(Get(record, "architectural_context", tEmpty)),
        Join(Space, Get(record, "building_types", <<>>)),
        Join(Space, Get(record, "architectural_elements", <<>>)),
        Join(Space, Get(record, "persons", <<>>)) >>))

\* One loaded record: the parsed content plus _filename and _search_text
LoadRecord(file) ==
    LET named == ("_filename" :> file.name) @@ file.content
    IN  ("_search_text" :> SearchText(named)) @@ named

load_dataset(listing) ==
    LET json == SelectSeq(listing, LAMBDA f : EndsWith(f.name, tJson))
    IN  [i \in DOMAIN json |-> LoadRecord(json[i])]

\* ------------------------------------------------------------------
\* BUILD INVERTED INDEX
\* ------------------------------------------------------------------
\* Mutant: index[token] = {i}, the posting set overwritten instead of extended
SetDefaultAddOverwrite(index, token, i) ==
    IF token \in DOMAIN index
    THEN [index EXCEPT ![token] = {i}]
    ELSE (token :> {i}) @@ index

\* index.setdefault(token, set()).add(i)
SetDefaultAdd(index, token, i) ==
    IF token \in DOMAIN index
    THEN [index EXCEPT ![token] = @ \cup {i}]
    ELSE (token :> {i}) @@ index

\* for token in tokens: index.setdefault(token, set()).add(i)
RECURSIVE AddTokens(_, _, _)
AddTokens(index, tokens, i) ==
    IF tokens = <<>> THEN index
    ELSE AddTokens(SetDefaultAdd(index, Head(tokens), i), Tail(tokens), i)

\* for i, record in enumerate(data): the passes of the loop for the positions
\* lo..hi, in ascending order, on the index as the earlier passes left it.  A
\* range of several positions is run as its first half and then, on the index
\* that half produced, its second half.
RECURSIVE BuildRange(_, _, _, _)
BuildRange(data, lo, hi, index) ==
    IF lo > hi THEN index
    ELSE IF lo = hi
    THEN AddTokens(index, tokenize(data[lo + 1]["_search_text"]), lo)
    ELSE LET mid == (lo + hi) \div 2
         IN  CHOOSE after \in {BuildRange(data, mid + 1, hi, half) :
                                  half \in {BuildRange(data, lo, mid, index)}} : TRUE

build_inverted_index(data) == BuildRange(data, 0, Len(data) - 1, <<>>)

\* INDEX.get(t, set())
IndexGet(index, t) == IF t \in DOMAIN index THEN index[t] ELSE {}

\* ------------------------------------------------------------------
\* SEARCH BY KEYWORDS (global)
\* ------------------------------------------------------------------
\* list(range(n))
RangeList(n) == [i \in 1..n |-> i - 1]

\* list(s) for a set s: Python fixes no iteration order for a set, so every
\* ordering of the elements is a possible outcome.
ListsOf(S) ==
    {l \in [1..Cardinality(S) -> S] : \A i, j \in DOMAIN l : i # j => l[i] # l[j]}

\* Mutant: results |= INDEX.get(t, set()), union instead of intersection
RECURSIVE IntersectAllUnion(_, _, _)
IntersectAllUnion(index, results, tokens) ==
    IF tokens = <<>> THEN results
    ELSE IntersectAllUnion(index, results \cup IndexGet(index, Head(tokens)), Tail(tokens))

\* for t in tokens: results &= INDEX.get(t, set())
RECURSIVE IntersectAll(_, _, _)
IntersectAll(index, results, tokens) ==
    IF tokens = <<>> THEN results
    ELSE IntersectAll(index, results \cap IndexGet(index, Head(tokens)), Tail(tokens))

\* Mutant: results = INDEX.get(first, set()) without .copy(): results is the
\* posting set of the first token itself, and the intersections change it in place
KeywordRunInPlace(index, tokens) ==
    LET first == tokens[1]
        results == IntersectAll(index, IndexGet(index, first), Tail(tokens))
    IN  [results |-> results,
         index |-> IF first \in DOMAIN index
                   THEN [index EXCEPT ![first] = results]
                   ELSE index]

\* Lines 68-72 on a non-empty token list: the result set and the index after
\* the loop.  results is a copy of the first posting set, so the in-place
\* intersections leave the index as it was.
KeywordRun(index, tokens) ==
    LET first == tokens[1]
        results == IntersectAll(index, IndexGet(index, first), Tail(tokens))
    IN  [results |-> results, index |-> index]

\* Mutant: "if not query" in place of "if not query.strip()"
search_keyword_no_strip(index, data, query) ==
    IF query = <<>>
    THEN {[raised |-> "none", value |-> RangeList(Len(data)), index |-> index]}
    ELSE LET tokens == tokenize(query)
         IN  IF tokens = <<>>
             THEN {[raised |-> "IndexError", value |-> <<>>, index |-> index]}
             ELSE LET run == KeywordRun(index, tokens)
                  IN  {[raised |-> "none", value |-> l, index |-> run.index] :
                          l \in ListsOf(run.results)}

\* The possible outcomes of search_keyword(query): the exception raised
\* ("none" when it returns), the returned list and the index afterwards.
search_keyword(index, data, query) ==
    IF Strip(query) = <<>>
    THEN {[raised |-> "none", value |-> RangeList(Len(data)), index |-> index]}
    ELSE LET tokens == tokenize(query)
         IN  IF tokens = <<>>
             THEN {[raised |-> "IndexError", value |-> <<>>, index |-> index]}
             ELSE LET run == KeywordRun(index, tokens)
                  IN  {[raised |-> "none", value |-> l, index |-> run.index] :
                          l \in ListsOf(run.results)}

\* ------------------------------------------------------------------
\* Filter predicates
\* ------------------------------------------------------------------
\* Mutant: containment in place of equality
filter_exact_contains(value, field_value) ==
    IF value = <<>> THEN TRUE
    ELSE Contains(Lower(value), Lower(Str(field_value)))

filter_exact(value, field_value) ==
    IF value = <<>> THEN TRUE
    ELSE Lower(value) = Lower(Str(field_value))

filter_contains(text, field_value) ==
    IF text = <<>> THEN TRUE
    ELSE Contains(Lower(text), Lower(Str(field_value)))

filter_list(text, values_list) ==
    IF text = <<>> THEN TRUE
    ELSE \E k \in DOMAIN values_list : Contains(Lower(text), Lower(values_list[k]))

filter_field(text, field_value) ==
    IF text = <<>> THEN TRUE
    ELSE IF field_value = <<>> THEN FALSE
    ELSE Contains(Lower(text), Lower(field_value))

filter_list_field(text, values_list) ==
    IF text = <<>> THEN TRUE
    ELSE Contains(Lower(text), Lower(Join(Space, values_list)))

\* The body of the loop of filter_results: rec is appended iff no test continues
Keeps(rec, f) ==
    /\ filter_contains(f.f_scene_desc, Get(rec, "scene_description_enriched", tEmpty))
    /\ filter_contains(f.f_scene_interp, Get(rec, "scene_interpretation", tEmpty))
    /\ filter_exact(f.f_spatial, Get(rec, "spatial_context", tEmpty))
    /\ filter_exact(f.f_arch, Get(rec, "architectural_context", tEmpty))
    /\ filter_list(f.f_buildings, Get(rec, "building_types", <<>>))
    /\ filter_list(f.f_elements, Get(rec, "architectural_elements", <<>>))
    /\ filter_list(f.f_persons, Get(rec, "persons", <<>>))

\* for idx in indices: ... final.append(rec): the kept records in the order of
\* indices (the record DATA[idx] is named by its position idx)
filter_results(data, indices, f) ==
    SelectSeq(indices, LAMBDA idx : Keeps(data[idx + 1], f))

\* ------------------------------------------------------------------
\* Pagination
\* ------------------------------------------------------------------
Max(a, b) == IF a >= b THEN a ELSE b

\* A slice bound as Python resolves it against a list of length n
SliceBound(i, n) ==
    IF i < 0 THEN Max(i + n, 0) ELSE IF i > n THEN n ELSE i

\* list[start:end]
Slice(list, start, end) ==
    LET lo == SliceBound(start, Len(list))
        hi == SliceBound(end, Len(list))
    IN  IF lo >= hi THEN <<>> ELSE SubSeq(list, lo + 1, hi)

total_pages_of(total_results) ==
    Max(1, (total_results + RESULTS_PER_PAGE - 1) \div RESULTS_PER_PAGE)

\* Mutant: pages counted from 0
page_start_from_zero(page) == page * RESULTS_PER_PAGE

page_start(page) == (page - 1) * RESULTS_PER_PAGE

\* Lines 209-215
paginate(results_all, page) ==
    LET start == page_start(page)
        end == start + RESULTS_PER_PAGE
    IN  [total_results |-> Len(results_all),
         total_pages |-> total_pages_of(Len(results_all)),
         results_page |-> Slice(results_all, start, end)]

\* ------------------------------------------------------------------
\* Requests and responses
\* ------------------------------------------------------------------
FilterNames == {"f_scene_desc", "f_scene_interp", "f_spatial", "f_arch",
                "f_buildings", "f_elements", "f_persons"}

\* The values each form field is drawn from
FilterValues == [f_scene_desc   |-> {tEmpty, tUrban},
                 f_scene_interp |-> {tEmpty, tTowerUp},
                 f_spatial      |-> {tEmpty, tUrban},
                 f_arch         |-> {tEmpty, tGothicCap},
                 f_buildings    |-> {tEmpty, tBrickTower},
                 f_elements     |-> {tEmpty, tTow},
                 f_persons      |-> {tEmpty, tAnnBob}]

Active(f) == {n \in FilterNames : f[n] # tEmpty}

Filters == {f \in [f_scene_desc   : FilterValues.f_scene_desc,
                   f_scene_interp : FilterValues.f_scene_interp,
                   f_spatial      : FilterValues.f_spatial,
                   f_arch         : FilterValues.f_arch,
                   f_buildings    : FilterValues.f_buildings,
                   f_elements     : FilterValues.f_elements,
                   f_persons      : FilterValues.f_persons] :
               Cardinality(Active(f)) <= MaxActive}

NoFilters == [n \in FilterNames |-> tEmpty]

Queries == {tEmpty, tBlank, tPunct, tBrickTower, tTowerBrick, tTower, tUrbanZzz}

MakeRequest(method, query, f, page) ==
    [method |-> method, query |-> query, page |-> page,
     f_scene_desc |-> f.f_scene_desc, f_scene_interp |-> f.f_scene_interp,
     f_spatial |-> f.f_spatial, f_arch |-> f.f_arch,
     f_buildings |-> f.f_buildings, f_elements |-> f.f_elements,
     f_persons |-> f.f_persons]

NoRequest == MakeRequest("none", tEmpty, NoFilters, 1)

\* Requests of Spec: a GET for every query with every combination of at most
\* MaxActive active filters, and a form POST for every query with at most one
\* active filter
Requests ==
    {MakeRequest("GET", q, f, 1) : q \in Queries, f \in Filters}
    \cup {MakeRequest("POST", q, f, 1) :
              q \in Queries, f \in {g \in Filters : Cardinality(Active(g)) <= 1}}

\* Requests of SpecPage: the pages of the unfiltered and the filtered corpus
PageRequests ==
    {MakeRequest("GET", q, [NoFilters EXCEPT !.f_spatial = v], p) :
        q \in {tEmpty, tBlank}, v \in FilterValues.f_spatial,
        p \in (0 - MaxPage)..MaxPage}
    \cup {MakeRequest("POST", tEmpty, NoFilters, 1)}

NoResponse ==
    [status |-> "none", indices |-> <<>>, results_all |-> <<>>,
     results_page |-> <<>>, total_results |-> 0, total_pages |-> 0,
     location |-> NoRequest]

\* What the client keeps of an earlier response: the records it listed
NoPrev == [sent |-> FALSE, records |-> {}]

\* ------------------------------------------------------------------
\* State
\* ------------------------------------------------------------------
VARIABLES
    files,      \* the data directory as os.listdir returned it at startup
    DATA,       \* module global DATA
    INDEX,      \* module global INDEX
    pc,         \* "idle", "received" (a request awaits its handler), "done"
    request,    \* the request being handled
    response,   \* what the handler returned
    prev        \* the records returned for the same request sent before, if it was resent

vars == <<files, DATA, INDEX, pc, request, response, prev>>

\* Load at startup (lines 56-57)
Startup(listing) ==
    /\ files = listing
    /\ DATA = load_dataset(listing)
    /\ INDEX = build_inverted_index(load_dataset(listing))
    /\ pc = "idle"
    /\ request = NoRequest
    /\ response = NoResponse
    /\ prev = NoPrev

Init == \E listing \in Listings(MaxRecords) : Startup(listing)

\* A directory of n JSON files, all File5 or File5 and File3 in turn, listed
\* after a file that is no JSON file
PageListing(n, mixed) ==
    <<Notes>> \o [i \in 1..n |-> IF mixed /\ i % 2 = 0 THEN File3 ELSE File5]

InitPage ==
    \E n \in 0..MaxResults, mixed \in BOOLEAN : Startup(PageListing(n, mixed))

\* ------------------------------------------------------------------
\* Actions
\* ------------------------------------------------------------------
\* A client sends a request
Receive(req) ==
    /\ pc = "idle"
    /\ pc' = "received"
    /\ request' = req
    /\ response' = NoResponse
    /\ prev' = NoPrev
    /\ UNCHANGED <<files, DATA, INDEX>>

\* The POST branch of search_page (lines 160-180)
Redirect(req) ==
    [NoResponse EXCEPT !.status = "redirect",
                       !.location = [req EXCEPT !.method = "GET", !.page = 1]]

\* The GET branch of search_page (lines 183-232) for one outcome of search_keyword
Render(data, req, out) ==
    IF out.raised # "none"
    THEN [NoResponse EXCEPT !.status = out.raised]
    ELSE LET results_all == filter_results(data, out.value, req)
             pg == paginate(results_all, req.page)
         IN  [status |-> "ok", indices |-> out.value, results_all |-> results_all,
              results_page |-> pg.results_page, total_results |-> pg.total_results,
              total_pages |-> pg.total_pages, location |-> NoRequest]

\* The handler of "/"
search_page ==
    /\ pc = "received"
    /\ pc' = "done"
    /\ IF request.method = "POST"
       THEN /\ response' = Redirect(request)
            /\ INDEX' = INDEX
       ELSE \E out \in search_keyword(INDEX, DATA, request.query) :
               /\ response' = Render(DATA, request, out)
               /\ INDEX' = out.index
    /\ UNCHANGED <<files, DATA, request, prev>>

\* The client follows the redirect of a POST
FollowRedirect ==
    /\ pc = "done"
    /\ response.status = "redirect"
    /\ pc' = "received"
    /\ request' = response.location
    /\ response' = NoResponse
    /\ UNCHANGED <<files, DATA, INDEX, prev>>

\* The client sends the same request once more
Resend ==
    /\ pc = "done"
    /\ response.status = "ok"
    /\ ~prev.sent
    /\ pc' = "received"
    /\ prev' = [sent |-> TRUE, records |-> Range(response.results_all)]
    /\ response' = NoResponse
    /\ UNCHANGED <<files, DATA, INDEX, request>>

\* The client is done with the response
Finish ==
    /\ pc = "done"
    /\ pc' = "idle"
    /\ request' = NoRequest
    /\ response' = NoResponse
    /\ prev' = NoPrev
    /\ UNCHANGED <<files, DATA, INDEX>>

Handlers == search_page \/ FollowRedirect \/ Resend \/ Finish

Next == (\E req \in Requests : Receive(req)) \/ Handlers

Spec == Init /\ [][Next]_vars

NextPage == (\E req \in PageRequests : Receive(req)) \/ Handlers

SpecPage == InitPage /\ [][NextPage]_vars

\* ------------------------------------------------------------------
\* Properties
\* ------------------------------------------------------------------
Positions == 0..(Len(DATA) - 1)

\* The tokens of the record at position p
TokensOf(p) == Range(tokenize(DATA[p + 1]["_search_text"]))

\* The tokens of the queries of the pool
QueryTokens == UNION {Range(tokenize(q)) : q \in Queries}

Blank(text) == \A i \in DOMAIN text : text[i] \in Whitespace

\* The handler returned a rendered page
Served == pc = "done" /\ response.status = "ok"

NoDuplicates(list) == \A i, j \in DOMAIN list : i # j => list[i] # list[j]

\* C1: after the build (no request is being handled), position p is in
\* index[t] iff t is a token of record p's search text; no posting lies
\* outside 0..N-1 and no token is missing.
C1_IndexIffToken ==
    pc = "idle" =>
    LET tokens == [p \in Positions |-> TokensOf(p)]
        all == DOMAIN INDEX \cup QueryTokens \cup UNION {tokens[p] : p \in Positions}
    IN  \A t \in all :
            /\ IndexGet(INDEX, t) \subseteq Positions
            /\ \A p \in Positions : p \in IndexGet(INDEX, t) <=> t \in tokens[p]

C1_Witness ==
    /\ pc = "idle"
    /\ Len(DATA) = 2
    /\ \E t \in DOMAIN INDEX : INDEX[t] = {0, 1}
    /\ \E t \in DOMAIN INDEX : INDEX[t] = {1}
    /\ \E t \in QueryTokens : t \notin DOMAIN INDEX

\* C2: for a query with at least one token, search_keyword returns the
\* intersection of the posting sets of its tokens (an unseen token counting as
\* the empty set); that is the intersection of the answers to its tokens asked
\* one by one, and a query with the same tokens in another order has the same
\* answer.
C2_AndSemantics ==
    (Served /\ tokenize(request.query) # <<>>) =>
        LET tokens == Range(tokenize(request.query))
            answer == Range(response.indices)
        IN  /\ NoDuplicates(response.indices)
            /\ answer = {p \in Positions : \A t \in tokens : p \in IndexGet(INDEX, t)}
            /\ answer = {p \in Positions : \A t \in tokens :
                            \A o \in search_keyword(INDEX, DATA, t) : p \in Range(o.value)}
            /\ \A q \in Queries :
                  Range(tokenize(q)) = tokens =>
                      \A o \in search_keyword(INDEX, DATA, q) : Range(o.value) = answer

C2_Witness ==
    /\ Served
    /\ request.query = tTowerBrick
    /\ Range(response.indices) = {0}
    /\ IndexGet(INDEX, tTower) = {0, 1}

\* C3: the final result list is in ascending position order.
C3_AscendingOrder ==
    Served =>
        \A i, j \in DOMAIN response.results_all :
            i < j => response.results_all[i] < response.results_all[j]

\* The claimed list predicate: the lowercased value is a substring of the list
\* joined with single spaces and lowercased
JoinedContains(value, list) ==
    value = <<>> \/ Contains(Lower(value), Lower(Join(Space, list)))

ListFiltersPass(p) ==
    /\ JoinedContains(request.f_buildings, Get(DATA[p + 1], "building_types", <<>>))
    /\ JoinedContains(request.f_elements, Get(DATA[p + 1], "architectural_elements", <<>>))
    /\ JoinedContains(request.f_persons, Get(DATA[p + 1], "persons", <<>>))

ListFilters == {"f_buildings", "f_elements", "f_persons"}

\* C4: an active list filter keeps a record iff the filter value is a
\* substring of the joined list.
C4_ListFilterJoined ==
    Served =>
        \A p \in Range(response.indices) :
            /\ p \in Range(response.results_all) => ListFiltersPass(p)
            /\ Active(request) \subseteq ListFilters =>
                  (p \in Range(response.results_all) <=> ListFiltersPass(p))

\* The claimed exact predicate: the field is present and equals the value as a
\* whole string, case-insensitively
ExactEquals(value, rec, field) ==
    value = <<>> \/ (field \in DOMAIN rec /\ Lower(rec[field]) = Lower(value))

ExactFiltersPass(p) ==
    /\ ExactEquals(request.f_spatial, DATA[p + 1], "spatial_context")
    /\ ExactEquals(request.f_arch, DATA[p + 1], "architectural_context")

ExactFilters == {"f_spatial", "f_arch"}

\* C5: an active exact-match filter keeps a record iff the field equals the
\* filter value case-insensitively as a whole string; a field that only
\* contains the value, or an absent field, is excluded.
C5_ExactFilter ==
    Served =>
        \A p \in Range(response.indices) :
            /\ p \in Range(response.results_all) => ExactFiltersPass(p)
            /\ Active(request) \subseteq ExactFilters =>
                  (p \in Range(response.results_all) <=> ExactFiltersPass(p))

C5_Witness ==
    /\ Served
    /\ request.f_spatial = tUrban
    /\ Active(request) = {"f_spatial"}
    /\ \E p \in Range(response.results_all) :
          DATA[p + 1]["spatial_context"] = tUrbanCap
    /\ \E p \in Range(response.indices) \ Range(response.results_all) :
          /\ "spatial_context" \in DOMAIN DATA[p + 1]
          /\ Contains(tUrban, DATA[p + 1]["spatial_context"])

\* The slice the claim gives to page p of a result list
ClaimedPage(results, p) ==
    LET total == Len(results)
        from == (p - 1) * RESULTS_PER_PAGE
        to == IF p * RESULTS_PER_PAGE < total THEN p * RESULTS_PER_PAGE ELSE total
    IN  IF from >= to THEN <<>> ELSE [i \in 1..(to - from) |-> results[from + i]]

\* ceil(total / RESULTS_PER_PAGE)
CeilPages(total) ==
    CHOOSE k \in 0..total :
        k * RESULTS_PER_PAGE >= total /\ (k - 1) * RESULTS_PER_PAGE < total

\* C6: for a page number >= 1, total_pages = max(1, ceil(total_results / 48)),
\* page p <= total_pages holds the results at offsets (p-1)*48 ..
\* min(p*48, total_results)-1 in order, a page beyond total_pages is empty with
\* the totals as they are, and the handler does not fault.
C6_Pagination ==
    /\ (pc = "done" /\ request.method = "GET" /\ request.page >= 1
          /\ Blank(request.query)) => response.status = "ok"
    /\ (Served /\ request.page >= 1) =>
          /\ response.total_results = Len(response.results_all)
          /\ response.total_pages =
                (IF CeilPages(response.total_results) < 1 THEN 1
                 ELSE CeilPages(response.total_results))
          /\ response.results_page = ClaimedPage(response.results_all, request.page)
          /\ request.page > response.total_pages => response.results_page = <<>>
          /\ Len(DATA) = 0 => response.total_results = 0 /\ response.total_pages = 1

C6_Witness ==
    /\ Served
    /\ request.page = 2
    /\ response.total_pages = 2
    /\ response.total_results > RESULTS_PER_PAGE
    /\ response.total_results < 2 * RESULTS_PER_PAGE
    /\ Len(response.results_page) = response.total_results - RESULTS_PER_PAGE
    /\ response.total_results < Len(DATA)

\* C7: a blank (empty or whitespace-only) query returns every position
\* 0..N-1 exactly once, and with no filter the result is the whole corpus.
C7_BlankQuery ==
    (pc = "done" /\ request.method = "GET" /\ Blank(request.query)) =>
        /\ response.status = "ok"
        /\ Range(response.indices) = Positions
        /\ Len(response.indices) = Len(DATA)
        /\ Active(request) = {} =>
              /\ Range(response.results_all) = Positions
              /\ Len(response.results_all) = Len(DATA)

C7_Witness ==
    /\ Served
    /\ request.query = tBlank
    /\ Active(request) = {}
    /\ Len(DATA) = 2
    /\ Len(response.results_all) = 2

C9_NoTokenQuery ==
    (pc = "done" /\ request.method = "GET" /\ ~Blank(request.query)
       /\ tokenize(request.query) = <<>>) =>
        /\ response.status = "ok"
        /\ Range(response.indices) \in {{}, Positions}

\* C10: a page number below 1 is rejected or answered as page 1.
C10_PageBelowOne ==
    (pc = "done" /\ request.method = "GET" /\ request.page < 1) =>
        \/ response.status = "rejected"
        \/ /\ response.status = "ok"
           /\ response.results_page = ClaimedPage(response.results_all, 1)

====
